---- MODULE Spec2Model ----
(***************************************************************************)
(* The sFlow-RT flow key definition parser of sflowrt-rs                   *)
(* (sflowrt-rs-flow/src/key) and the parse-key command of sflowrt-rs-cli.  *)
(*                                                                         *)
(* A text is a sequence of characters, each character a one-character      *)
(* string; the parsers are operators from a text to a nom IResult: either  *)
(* [ok |-> TRUE, rest, val] or [ok |-> FALSE, rest, code].                 *)
(***************************************************************************)
EXTENDS Integers, Sequences, FiniteSets, TLC

VARIABLES
    input,   \* the text handed to the operation
    key,     \* the KeyName value handed to to_sflowrt_key_name
    pc,      \* "idle", or the name of the operation that has run
    result   \* what the operation returned

vars == <<input, key, pc, result>>

----------------------------------------------------------------------------
(* Characters.                                                             *)

\* The ASCII letters and digits: what nom's alphanumeric1 accepts.
AsciiAlphanumeric ==
  {
    "a", "b", "c", "d", "e", "f", "g", "h", "i", "j", "k", "l", "m", "n",
    "o", "p", "q", "r", "s", "t", "u", "v", "w", "x", "y", "z", "A", "B",
    "C", "D", "E", "F", "G", "H", "I", "J", "K", "L", "M", "N", "O", "P",
    "Q", "R", "S", "T", "U", "V", "W", "X", "Y", "Z", "0", "1", "2", "3",
    "4", "5", "6", "7", "8", "9"
  }

\* A letter outside ASCII: char::is_alphanumeric holds of it, nom's
\* alphanumeric1 does not take it.
NonAsciiAlphanumeric == {"é"}

\* KEY_PARSEOPTS
key_def_sep == ","
fn_arg_sep == ":"
fn_nest_open == "["
fn_nest_close == "]"

----------------------------------------------------------------------------
(* KeyName and the two tables.                                             *)

\* The table with a copy-and-paste slip: "ip6source" is given the variant of
\* "ip6destination".
KeyNameEntries_DuplicateVariant ==
  <<
      <<<<"i","p","s","o","u","r","c","e">>, "IpSource">>,
      <<<<"i","p","d","e","s","t","i","n","a","t","i","o","n">>, "IpDestination">>,
      <<<<"i","p","6","_","o","f","f","s","e","t">>, "Ip6Offset">>,
      <<<<"i","p","6","t","o","s">>, "Ip6TOS">>,
      <<<<"i","p","6","e","c","n">>, "Ip6ECN">>,
      <<<<"i","p","6","d","s","c","p">>, "Ip6DSCP">>,
      <<<<"i","p","6","d","s","c","p","n","a","m","e">>, "Ip6DSCPName">>,
      <<<<"i","p","6","f","l","o","w","l","a","b","e","l">>, "Ip6FlowLabel">>,
      <<<<"i","p","6","t","t","l">>, "Ip6TTL">>,
      <<<<"i","p","6","s","o","u","r","c","e">>, "Ip6Destination">>,
      <<<<"i","p","6","d","e","s","t","i","n","a","t","i","o","n">>, "Ip6Destination">>,
      <<<<"i","p","6","b","y","t","e","s">>, "Ip6Bytes">>,
      <<<<"i","p","6","e","x","t","e","n","s","i","o","n","s">>, "Ip6Extensions">>,
      <<<<"i","p","6","f","r","a","g","o","f","f","s","e","t">>, "Ip6FragmentOffset">>,
      <<<<"i","p","6","f","r","a","g","m">>, "Ip6FragmentMFlag">>,
      <<<<"i","p","6","n","e","x","t","h","d","r">>, "Ip6NextHeader">>
  >>

\* The entries of the phf_map! literal, in the order written.
KeyNameEntries ==
  <<
      <<<<"i","p","s","o","u","r","c","e">>, "IpSource">>,
      <<<<"i","p","d","e","s","t","i","n","a","t","i","o","n">>, "IpDestination">>,
      <<<<"i","p","6","_","o","f","f","s","e","t">>, "Ip6Offset">>,
      <<<<"i","p","6","t","o","s">>, "Ip6TOS">>,
      <<<<"i","p","6","e","c","n">>, "Ip6ECN">>,
      <<<<"i","p","6","d","s","c","p">>, "Ip6DSCP">>,
      <<<<"i","p","6","d","s","c","p","n","a","m","e">>, "Ip6DSCPName">>,
      <<<<"i","p","6","f","l","o","w","l","a","b","e","l">>, "Ip6FlowLabel">>,
      <<<<"i","p","6","t","t","l">>, "Ip6TTL">>,
      <<<<"i","p","6","s","o","u","r","c","e">>, "Ip6Source">>,
      <<<<"i","p","6","d","e","s","t","i","n","a","t","i","o","n">>, "Ip6Destination">>,
      <<<<"i","p","6","b","y","t","e","s">>, "Ip6Bytes">>,
      <<<<"i","p","6","e","x","t","e","n","s","i","o","n","s">>, "Ip6Extensions">>,
      <<<<"i","p","6","f","r","a","g","o","f","f","s","e","t">>, "Ip6FragmentOffset">>,
      <<<<"i","p","6","f","r","a","g","m">>, "Ip6FragmentMFlag">>,
      <<<<"i","p","6","n","e","x","t","h","d","r">>, "Ip6NextHeader">>
  >>

\* The variants of enum KeyName other than Unknown(String), as declared.
KnownVariants ==
  {
      "IpSource",
      "IpDestination",
      "Ip6Offset",
      "Ip6TOS",
      "Ip6ECN",
      "Ip6DSCP",
      "Ip6DSCPName",
      "Ip6FlowLabel",
      "Ip6TTL",
      "Ip6Source",
      "Ip6Destination",
      "Ip6Bytes",
      "Ip6Extensions",
      "Ip6FragmentOffset",
      "Ip6FragmentMFlag",
      "Ip6NextHeader"
  }

Known(v) == [variant |-> v, text |-> <<>>]
Unknown(s) == [variant |-> "Unknown", text |-> s]

\* Option<T>
None == [some |-> FALSE]
Some(v) == [some |-> TRUE, val |-> v]

\* phf::Map::get on KEY_NAME_TO_VARIANT (phf_map! admits no duplicate key).
KEY_NAME_TO_VARIANT_get(name) ==
    IF \E i \in DOMAIN KeyNameEntries : KeyNameEntries[i][1] = name
    THEN Some(Known(KeyNameEntries[
             CHOOSE i \in DOMAIN KeyNameEntries : KeyNameEntries[i][1] = name][2]))
    ELSE None

KEY_NAME_TO_VARIANT_len == Len(KeyNameEntries)

\* The LazyLock initialiser: every entry (k, v) of KEY_NAME_TO_VARIANT is
\* inserted as v -> k; a later insert of the same variant replaces the name.
RECURSIVE InsertEntries(_, _)
InsertEntries(map, i) ==
    IF i > Len(KeyNameEntries) THEN map
    ELSE LET k == KeyNameEntries[i][1]
             v == Known(KeyNameEntries[i][2])
         IN InsertEntries([x \in DOMAIN map \cup {v} |->
                              IF x = v THEN k ELSE map[x]], i + 1)

KEY_VARIANT_TO_NAME == InsertEntries(<<>>, 1)

KEY_VARIANT_TO_NAME_get(k) ==
    IF k \in DOMAIN KEY_VARIANT_TO_NAME THEN Some(KEY_VARIANT_TO_NAME[k]) ELSE None

KEY_VARIANT_TO_NAME_len == Cardinality(DOMAIN KEY_VARIANT_TO_NAME)

\* KeyName::to_sflowrt_key_name
to_sflowrt_key_name(k) ==
    IF k.variant = "Unknown" THEN None ELSE KEY_VARIANT_TO_NAME_get(k)

\* KeyName::from_sflowrt_key_name
from_sflowrt_key_name(key_name) == KEY_NAME_TO_VARIANT_get(key_name)

\* strum's KeyName::COUNT: every variant of the enum, Unknown included.
KeyName_COUNT == Cardinality(KnownVariants \cup {"Unknown"})

----------------------------------------------------------------------------
(* KeyExpression, KeyFunction, KeyDefinition.                              *)

KeyExpression_KeyName(k) == [tag |-> "KeyName", name |-> k]
KeyExpression_KeyFunction(f) == [tag |-> "KeyFunction", fn |-> f]

GroupKeyFunction(k, names) == [tag |-> "Group", key |-> k, group_names |-> names]
CountryKeyFunction(a) == [tag |-> "Country", arg |-> a]
UnknownKeyFunction(n, a) == [tag |-> "Unknown", function_name |-> n, args |-> a]

KeyDefinition(ks) == [keys |-> ks]

----------------------------------------------------------------------------
(* nom: IResult and the primitive parsers.                                 *)

Ok(rest, val) == [ok |-> TRUE, rest |-> rest, val |-> val]
Err(rest, code) == [ok |-> FALSE, rest |-> rest, code |-> code]

\* `let (input, x) = parser(input)?; ...`: an error is returned at once,
\* otherwise the body goes on with the result r.
Try(r, Body(_)) == IF r.ok THEN Body(r) ELSE r

\* A parser tried inside a loop or an alternative: the body goes on with the
\* result, an error gives otherwise.
IfOk(r, Body(_), otherwise) == IF r.ok THEN Body(r) ELSE otherwise

Take(s, n) == SubSeq(s, 1, n)
Drop(s, n) == SubSeq(s, n + 1, Len(s))

\* The length of the longest prefix of s made of characters of class.
SpanLen(s, class) ==
    CHOOSE n \in 0..Len(s) :
        /\ \A i \in 1..n : s[i] \in class
        /\ n = Len(s) \/ s[n + 1] \notin class

\* A parser that takes the first n characters, and needs one at least.
Span1(i, n, code) ==
    IF n = 0 THEN Err(i, code) ELSE Ok(Drop(i, n), Take(i, n))

\* nom::character::complete::alphanumeric1
alphanumeric1(i) == Span1(i, SpanLen(i, AsciiAlphanumeric), "AlphaNumeric")

\* take_while1(|c| c.is_alphanumeric() || c == '_')
alphanumeric1_or_underscore(i) ==
    Span1(i, SpanLen(i, AsciiAlphanumeric \cup NonAsciiAlphanumeric \cup {"_"}),
          "TakeWhile1")

\* nom::character::complete::char
char(c, i) ==
    IF Len(i) > 0 /\ i[1] = c THEN Ok(Tail(i), c) ELSE Err(i, "Char")

\* nom::bytes::complete::tag
tag(t, i) ==
    IF Len(i) >= Len(t) /\ Take(i, Len(t)) = t
    THEN Ok(Drop(i, Len(t)), t)
    ELSE Err(i, "Tag")

\* nom::branch::alt of two parsers: the second is tried where the first fails,
\* and its error is the one returned.
alt(first, second) == IF first.ok THEN first ELSE second

\* Option::unwrap_or_else
unwrap_or_else(option, default) == IF option.some THEN option.val ELSE default

----------------------------------------------------------------------------
(* parser: key name                                                        *)

\* parse_key_name_or_unknown with the catch-all built from the shadowing
\* `input` (what is left) instead of `key_name`.
parse_key_name_or_unknown_WrapsRest(i) ==
    Try(alphanumeric1(i), LAMBDA key_name :
        Ok(key_name.rest,
           unwrap_or_else(KEY_NAME_TO_VARIANT_get(key_name.val),
                          Unknown(key_name.rest))))

parse_key_name_or_unknown(i) ==
    Try(alphanumeric1(i), LAMBDA key_name :
        Ok(key_name.rest,
           unwrap_or_else(KEY_NAME_TO_VARIANT_get(key_name.val),
                          Unknown(key_name.val))))

\* The body of _parse_key_name_known once the name is peeked and looked up.
known_or_none(i, key_name_str, found) ==
    IF found.some
    THEN Try(tag(key_name_str, i), LAMBDA t : Ok(t.rest, Some(found.val)))
    ELSE Ok(i, None)

_parse_key_name_known(i) ==
    Try(alphanumeric1(i), LAMBDA peeked :     \* peek: the input is not advanced
        known_or_none(i, peeked.val, KEY_NAME_TO_VARIANT_get(peeked.val)))

----------------------------------------------------------------------------
(* parser: key functions                                                   *)

KEY_FUNCTION_NAME_GROUP == <<"g","r","o","u","p">>
KEY_FUNCTION_NAME_COUNTRY == <<"c","o","u","n","t","r","y">>

parse_key_function_name(i) == alphanumeric1(i)

\* terminated(parse_key_function_name, char(separator))
_parse_key_function_name_from_separator(separator, i) ==
    Try(parse_key_function_name(i), LAMBDA n :
        Try(char(separator, n.rest), LAMBDA s : Ok(s.rest, n.val)))

\* many0(preceded(char(separator), alphanumeric1_or_underscore)), from i with
\* acc already collected.
\* group_names_many0 with each name pushed at the front of the list.
RECURSIVE group_names_many0_Reversed(_, _, _)
group_names_many0_Reversed(separator, i, acc) ==
    IfOk(char(separator, i), LAMBDA s :
         IfOk(alphanumeric1_or_underscore(s.rest), LAMBDA g :
              group_names_many0_Reversed(separator, g.rest, <<g.val>> \o acc),
              Ok(i, acc)),
         Ok(i, acc))

RECURSIVE group_names_many0(_, _, _)
group_names_many0(separator, i, acc) ==
    IfOk(char(separator, i), LAMBDA s :
         IfOk(alphanumeric1_or_underscore(s.rest), LAMBDA g :
              group_names_many0(separator, g.rest, Append(acc, g.val)),
              Ok(i, acc)),
         Ok(i, acc))

RECURSIVE parse_key_function(_)
RECURSIVE parse_key_function_argument(_)
RECURSIVE arguments_many1(_, _)
RECURSIVE arguments_separated(_, _)

\* parse_key_function_argument with preceded('[', ..) for delimited('[', .., ']'):
\* the closing bracket is not asked for.
parse_key_function_argument_NoClose(i) ==
    alt(Try(char(fn_nest_open, i), LAMBDA o :
            Try(parse_key_function(o.rest), LAMBDA f :
                Ok(f.rest, KeyExpression_KeyFunction(f.val)))),
        Try(parse_key_name_or_unknown(i), LAMBDA k :
            Ok(k.rest, KeyExpression_KeyName(k.val))))

\* parse_key_function_argument with a third alternative: a call written
\* without brackets is parsed as a function too.
parse_key_function_argument_CallsUnbracketed(i) ==
    alt(Try(char(fn_nest_open, i), LAMBDA o :
            Try(parse_key_function(o.rest), LAMBDA f :
                Try(char(fn_nest_close, f.rest), LAMBDA c :
                    Ok(c.rest, KeyExpression_KeyFunction(f.val))))),
        alt(Try(parse_key_function(i), LAMBDA f :
                Ok(f.rest, KeyExpression_KeyFunction(f.val))),
            Try(parse_key_name_or_unknown(i), LAMBDA k :
                Ok(k.rest, KeyExpression_KeyName(k.val)))))

\* alt((delimited('[', parse_key_function, ']'), parse_key_name_or_unknown))
parse_key_function_argument(i) ==
    alt(Try(char(fn_nest_open, i), LAMBDA o :
            Try(parse_key_function(o.rest), LAMBDA f :
                Try(char(fn_nest_close, f.rest), LAMBDA c :
                    Ok(c.rest, KeyExpression_KeyFunction(f.val))))),
        Try(parse_key_name_or_unknown(i), LAMBDA k :
            Ok(k.rest, KeyExpression_KeyName(k.val))))

\* The loop of many1(preceded(char(':'), parse_key_function_argument)): the
\* first failure is an error, a later one ends the list.
arguments_many1(i, acc) ==
    alt(Try(char(fn_arg_sep, i), LAMBDA s :
            Try(parse_key_function_argument(s.rest), LAMBDA a :
                arguments_many1(a.rest, Append(acc, a.val)))),
        IF acc = <<>>
        THEN Try(char(fn_arg_sep, i), LAMBDA s : parse_key_function_argument(s.rest))
        ELSE Ok(i, acc))

\* arguments_separated with each argument pushed at the front of the list.
RECURSIVE arguments_separated_Reversed(_, _)
arguments_separated_Reversed(i, acc) ==
    IfOk(char(fn_arg_sep, i), LAMBDA s :
         IfOk(parse_key_function_argument(s.rest), LAMBDA a :
              arguments_separated_Reversed(a.rest, <<a.val>> \o acc),
              Ok(i, acc)),
         Ok(i, acc))

\* The loop of separated_list1(char(':'), parse_key_function_argument) after
\* its first element.
arguments_separated(i, acc) ==
    IfOk(char(fn_arg_sep, i), LAMBDA s :
         IfOk(parse_key_function_argument(s.rest), LAMBDA a :
              arguments_separated(a.rest, Append(acc, a.val)),
              Ok(i, acc)),
         Ok(i, acc))

parse_key_function_arguments(i, leading_separator) ==
    IF leading_separator
    THEN arguments_many1(i, <<>>)
    ELSE Try(parse_key_function_argument(i), LAMBDA a :
             arguments_separated(a.rest, <<a.val>>))

\* impl KeyFunctionParser for UnknownKeyFunction
UnknownKeyFunction_parse_key_function(i, separator) ==
    Try(_parse_key_function_name_from_separator(separator, i), LAMBDA function_name :
        Try(parse_key_function_arguments(function_name.rest, FALSE), LAMBDA args :
            Ok(args.rest, UnknownKeyFunction(function_name.val, args.val))))

\* impl KeyFunctionParser for GroupKeyFunction
GroupKeyFunction_parse_key_function(i, separator) ==
    Try(tag(KEY_FUNCTION_NAME_GROUP, i), LAMBDA t :
        Try(char(separator, t.rest), LAMBDA s :
            Try(parse_key_function_argument(s.rest), LAMBDA k :
                Try(group_names_many0(separator, k.rest, <<>>), LAMBDA group_names :
                    Ok(group_names.rest, GroupKeyFunction(k.val, group_names.val))))))

\* The country parser taking every `:token` that follows its argument.
CountryKeyFunction_parse_key_function_TakesAll(i, separator) ==
    Try(tag(KEY_FUNCTION_NAME_COUNTRY, i), LAMBDA t :
        Try(char(separator, t.rest), LAMBDA s :
            Try(alphanumeric1(s.rest), LAMBDA arg :
                Ok(group_names_many0(separator, arg.rest, <<>>).rest,
                   CountryKeyFunction(arg.val)))))

\* The country parser resolving its argument through the key-name table and
\* keeping the sFlow-RT name of the key found (none for an unknown key).
CountryKeyFunction_parse_key_function_Resolves(i, separator) ==
    Try(tag(KEY_FUNCTION_NAME_COUNTRY, i), LAMBDA t :
        Try(char(separator, t.rest), LAMBDA s :
            Try(parse_key_name_or_unknown(s.rest), LAMBDA arg :
                Ok(arg.rest,
                   CountryKeyFunction(
                       unwrap_or_else(to_sflowrt_key_name(arg.val), <<>>))))))

\* impl KeyFunctionParser for CountryKeyFunction
CountryKeyFunction_parse_key_function(i, separator) ==
    Try(tag(KEY_FUNCTION_NAME_COUNTRY, i), LAMBDA t :
        Try(char(separator, t.rest), LAMBDA s :
            Try(alphanumeric1(s.rest), LAMBDA arg :
                Ok(arg.rest, CountryKeyFunction(arg.val)))))

\* The match of parse_key_function on the peeked name; the input still begins
\* with the name.
dispatch(i, function_name) ==
    IF function_name = KEY_FUNCTION_NAME_GROUP
    THEN GroupKeyFunction_parse_key_function(i, fn_arg_sep)
    ELSE IF function_name = KEY_FUNCTION_NAME_COUNTRY
    THEN CountryKeyFunction_parse_key_function(i, fn_arg_sep)
    ELSE UnknownKeyFunction_parse_key_function(i, fn_arg_sep)

\* parse_key_function without the peek: the name and its separator are
\* consumed before the function parser is called.
parse_key_function_Consumes(i) ==
    Try(_parse_key_function_name_from_separator(fn_arg_sep, i), LAMBDA named :
        dispatch(named.rest, named.val))

\* peek(_parse_key_function_name_from_separator(':')), then the match.
parse_key_function(i) ==
    Try(_parse_key_function_name_from_separator(fn_arg_sep, i), LAMBDA peeked :
        dispatch(i, peeked.val))

----------------------------------------------------------------------------
(* parser: key expression, key definition                                  *)

\* parse_key_expression without the or_else: a failure of the function parser
\* is the failure of the expression.
parse_key_expression_NoFallback(i) ==
    Try(parse_key_function(i), LAMBDA f :
        Ok(f.rest, KeyExpression_KeyFunction(f.val)))

\* parse_key_expression with the key name read where the function parser
\* stopped instead of at the start of the input.
key_name_where_stopped(f) ==
    IF f.ok
    THEN Ok(f.rest, KeyExpression_KeyFunction(f.val))
    ELSE Try(parse_key_name_or_unknown(f.rest), LAMBDA k :
             Ok(k.rest, KeyExpression_KeyName(k.val)))

parse_key_expression_ResumesWhereStopped(i) ==
    key_name_where_stopped(parse_key_function(i))

\* map(parse_key_function, ..)(input).or_else(|_| map(parse_key_name_or_unknown, ..)(input))
parse_key_expression(i) ==
    alt(Try(parse_key_function(i), LAMBDA f :
            Ok(f.rest, KeyExpression_KeyFunction(f.val))),
        Try(parse_key_name_or_unknown(i), LAMBDA k :
            Ok(k.rest, KeyExpression_KeyName(k.val))))

\* The loop of separated_list1(char(','), parse_key_expression) after its
\* first element.
RECURSIVE expressions_separated(_, _)
expressions_separated(i, acc) ==
    IfOk(char(key_def_sep, i), LAMBDA s :
         IfOk(parse_key_expression(s.rest), LAMBDA e :
              expressions_separated(e.rest, Append(acc, e.val)),
              Ok(i, acc)),
         Ok(i, acc))

\* parse_key_definition with the list begun empty: the first expression is
\* parsed and then left out.
parse_key_definition_DropsFirst(i) ==
    Try(parse_key_expression(i), LAMBDA e :
        Try(expressions_separated(e.rest, <<>>), LAMBDA keys :
            Ok(keys.rest, KeyDefinition(keys.val))))

parse_key_definition(i) ==
    Try(parse_key_expression(i), LAMBDA e :
        Try(expressions_separated(e.rest, <<e.val>>), LAMBDA keys :
            Ok(keys.rest, KeyDefinition(keys.val))))

\* anyhow::Result: Ok((String, T)), or the nom error under the context
\* "parsing a flow key definition".
finish_nom_parse(r) ==
    IF r.ok
    THEN [ok |-> TRUE, val |-> <<r.rest, r.val>>]
    ELSE [ok |-> FALSE,
          error |-> [context |-> "parsing a flow key definition",
                     cause |-> [input |-> r.rest, code |-> r.code]]]

\* format!("{definition:?}")
DebugFormat(definition) == [debug |-> definition]

\* parse_key without the ensure!: what is left of the input is ignored.
ensure_no_leftover_Skipped(leftover, definition) ==
    [ok |-> TRUE, val |-> Some(DebugFormat(definition))]

\* anyhow::ensure!(leftover.is_empty(), ...) and the Ok that follows it.
ensure_no_leftover(leftover, definition) ==
    IF leftover # <<>>
    THEN [ok |-> FALSE,
          error |-> [context |-> "Parsing failed.",
                     remaining |-> leftover,
                     parsed |-> DebugFormat(definition)]]
    ELSE [ok |-> TRUE, val |-> Some(DebugFormat(definition))]

\* sflowrt-rs-cli: the parse-key command.
parse_key(i) ==
    Try(finish_nom_parse(parse_key_definition(i)), LAMBDA parsed :
        ensure_no_leftover(parsed.val[1], parsed.val[2]))

----------------------------------------------------------------------------
(* The texts and KeyName values the operations are applied to.             *)

MaxPieces == 4       \* pieces in a free-form text
MaxDepth == 2        \* bracket nesting depth of the nested calls
MaxGroupNames == 3   \* group names after the key of a group call
MaxArgs == 3         \* arguments of an unknown-function call
MaxKeys == 3         \* key expressions in a definition

Txt_a == <<"a">>
Txt_f == <<"f">>
Txt_g1 == <<"g","1">>
Txt_g_2 == <<"g","_","2">>
Txt_ipsource == <<"i","p","s","o","u","r","c","e">>
Txt_ip6_offset == <<"i","p","6","_","o","f","f","s","e","t">>
Txt_ip5source == <<"i","p","5","s","o","u","r","c","e">>
Txt_unknownkey == <<"u","n","k","n","o","w","n","k","e","y">>

\* Every text made of at most n elements of pieces, joined by sep.
RECURSIVE Joined(_, _, _)
Joined(pieces, sep, n) ==
    IF n = 0 THEN {<<>>}
    ELSE LET shorter == Joined(pieces, sep, n - 1)
         IN shorter \cup {IF t = <<>> THEN p ELSE t \o sep \o p :
                              t \in shorter, p \in pieces}

\* Free-form texts: tokens, separators, brackets, an underscore and a
\* non-ASCII letter, in any order.
Pieces ==
    {Txt_a, Txt_ipsource, KEY_FUNCTION_NAME_GROUP, KEY_FUNCTION_NAME_COUNTRY,
     <<":">>, <<",">>, <<"[">>, <<"]">>, <<"_">>, <<"é">>}

FreeTexts == Joined(Pieces, <<>>, MaxPieces)

\* The names of the table, and some names that are not in it.
NameTexts ==
    {KeyNameEntries[i][1] : i \in DOMAIN KeyNameEntries}
        \cup {Txt_ip5source, Txt_unknownkey}

\* Calls one level deep, of every width up to the bounds.
GroupCalls ==
    {KEY_FUNCTION_NAME_GROUP \o <<":">> \o k \o (IF g = <<>> THEN g ELSE <<":">> \o g) :
        k \in {Txt_ipsource, Txt_a, Txt_ip6_offset,
               <<"[">> \o KEY_FUNCTION_NAME_COUNTRY \o <<":">> \o Txt_a \o <<"]">>},
        g \in Joined({Txt_g1, Txt_g_2}, <<":">>, MaxGroupNames)}

CountryCalls ==
    {KEY_FUNCTION_NAME_COUNTRY \o <<":">> \o t :
        t \in Joined({Txt_ipsource, Txt_a}, <<":">>, 2) \ {<<>>}}

UnknownCalls ==
    {Txt_f \o <<":">> \o a :
        a \in Joined({Txt_ipsource, Txt_a, Txt_g1, KEY_FUNCTION_NAME_GROUP,
                      <<"[">> \o Txt_f \o <<":">> \o Txt_a \o <<"]">>},
                     <<":">>, MaxArgs) \ {<<>>}}

\* Calls nested in brackets, MaxDepth levels deep.
Wrapped(x) ==
    {Txt_f \o <<":", "[">> \o x \o <<"]">>,
     Txt_f \o <<":">> \o Txt_a \o <<":", "[">> \o x \o <<"]", ":">> \o Txt_ipsource,
     KEY_FUNCTION_NAME_GROUP \o <<":", "[">> \o x \o <<"]", ":">> \o Txt_g1}

RECURSIVE NestedCalls(_)
NestedCalls(d) ==
    IF d = 0
    THEN {KEY_FUNCTION_NAME_COUNTRY \o <<":">> \o Txt_a,
          KEY_FUNCTION_NAME_GROUP \o <<":">> \o Txt_ipsource \o <<":">> \o Txt_g1,
          Txt_f \o <<":">> \o Txt_a}
    ELSE LET inner == NestedCalls(d - 1)
         IN inner \cup UNION {Wrapped(x) : x \in inner}

\* Definitions of up to MaxKeys key expressions.
DefinitionTexts ==
    Joined({Txt_ipsource, Txt_a,
            KEY_FUNCTION_NAME_COUNTRY \o <<":">> \o Txt_a,
            KEY_FUNCTION_NAME_GROUP \o <<":">> \o Txt_a \o <<":">> \o Txt_g1,
            Txt_f \o <<":">> \o Txt_a \o <<":", "[">> \o Txt_f \o <<":">> \o Txt_a \o <<"]">>},
           <<",">>, MaxKeys)

\* Nested calls with the brackets out of balance or around something other
\* than one call: a bracket taken out, a bracket written twice, a pair
\* around a bracketed call, and a pair around two calls.
RemoveAt(s, p) == SubSeq(s, 1, p - 1) \o SubSeq(s, p + 1, Len(s))
RepeatAt(s, p) == SubSeq(s, 1, p) \o SubSeq(s, p, Len(s))
BracketsOf(s) == {p \in DOMAIN s : s[p] \in {fn_nest_open, fn_nest_close}}

MisbracketedCalls ==
    UNION {{RemoveAt(x, p) : p \in BracketsOf(x)} \cup {RepeatAt(x, p) : p \in BracketsOf(x)} :
              x \in NestedCalls(MaxDepth)}
        \cup {Txt_f \o <<":", "[", "[">> \o x \o <<"]", "]">> : x \in NestedCalls(MaxDepth - 1)}
        \cup {Txt_f \o <<":", "[">> \o x \o <<",">> \o x \o <<"]">> : x \in NestedCalls(MaxDepth - 1)}

Inputs ==
    FreeTexts \cup NameTexts \cup GroupCalls \cup CountryCalls \cup UnknownCalls
        \cup NestedCalls(MaxDepth) \cup MisbracketedCalls \cup DefinitionTexts

NoKey == [variant |-> "", text |-> <<>>]

KeyNames ==
    {Known(v) : v \in KnownVariants}
        \cup {Unknown(s) : s \in {Txt_ip5source, Txt_ip6_offset, Txt_ipsource, <<>>}}

----------------------------------------------------------------------------
(* The state machine: an operation is applied once to its input.           *)

Init ==
    /\ pc = "idle"
    /\ result = <<>>
    /\ \/ input \in Inputs /\ key = NoKey
       \/ input = <<>> /\ key \in KeyNames

Apply(op, r) ==
    /\ pc = "idle"
    /\ pc' = op
    /\ result' = r
    /\ UNCHANGED <<input, key>>

ToSflowrtKeyName ==
    key # NoKey /\ Apply("to_sflowrt_key_name", to_sflowrt_key_name(key))

FromSflowrtKeyName ==
    key = NoKey /\ Apply("from_sflowrt_key_name", from_sflowrt_key_name(input))

ParseKeyNameOrUnknown ==
    key = NoKey /\ Apply("parse_key_name_or_unknown", parse_key_name_or_unknown(input))

ParseKeyNameKnown ==
    key = NoKey /\ Apply("_parse_key_name_known", _parse_key_name_known(input))

ParseGroupKeyFunction ==
    key = NoKey /\ Apply("GroupKeyFunction::parse_key_function",
                         GroupKeyFunction_parse_key_function(input, fn_arg_sep))

ParseCountryKeyFunction ==
    key = NoKey /\ Apply("CountryKeyFunction::parse_key_function",
                         CountryKeyFunction_parse_key_function(input, fn_arg_sep))

ParseUnknownKeyFunction ==
    key = NoKey /\ Apply("UnknownKeyFunction::parse_key_function",
                         UnknownKeyFunction_parse_key_function(input, fn_arg_sep))

ParseKeyFunctionArgument ==
    key = NoKey /\ Apply("parse_key_function_argument", parse_key_function_argument(input))

ParseKeyFunction ==
    key = NoKey /\ Apply("parse_key_function", parse_key_function(input))

ParseKeyExpression ==
    key = NoKey /\ Apply("parse_key_expression", parse_key_expression(input))

ParseKeyDefinition ==
    key = NoKey /\ Apply("parse_key_definition", parse_key_definition(input))

ParseKey ==
    key = NoKey /\ Apply("parse_key", parse_key(input))

Next ==
    \/ ToSflowrtKeyName
    \/ FromSflowrtKeyName
    \/ ParseKeyNameOrUnknown
    \/ ParseKeyNameKnown
    \/ ParseGroupKeyFunction
    \/ ParseCountryKeyFunction
    \/ ParseUnknownKeyFunction
    \/ ParseKeyFunctionArgument
    \/ ParseKeyFunction
    \/ ParseKeyExpression
    \/ ParseKeyDefinition
    \/ ParseKey

Spec == Init /\ [][Next]_vars

----------------------------------------------------------------------------
(* Properties.                                                             *)

IsTableName(s) == \E i \in DOMAIN KeyNameEntries : KeyNameEntries[i][1] = s

\* The variant the table gives the name s.
TableVariant(s) ==
    Known(KeyNameEntries[CHOOSE i \in DOMAIN KeyNameEntries : KeyNameEntries[i][1] = s][2])

\* A non-empty text of ASCII letters and digits.
IsToken(s) == s # <<>> /\ \A i \in DOMAIN s : s[i] \in AsciiAlphanumeric

Ran(op) == pc = op

\* C1: the name->variant table and the variant->name table are mutually
\* inverse bijections over the known variants: a known variant converted to
\* its name and back is itself, a table name converted to its variant and
\* back is itself, no table entry is KeyName::Unknown, and both tables have as
\* many entries as KeyName has variants other than the catch-all.
C1_TablesAreInverse ==
    /\ (Ran("to_sflowrt_key_name") /\ key.variant \in KnownVariants)
          => /\ result.some
             /\ from_sflowrt_key_name(result.val) = Some(key)
    /\ (Ran("from_sflowrt_key_name") /\ IsTableName(input))
          => /\ result.some
             /\ result.val.variant \in KnownVariants
             /\ to_sflowrt_key_name(result.val) = Some(input)
    /\ KEY_NAME_TO_VARIANT_len = KEY_VARIANT_TO_NAME_len
    /\ KEY_NAME_TO_VARIANT_len = KeyName_COUNT - 1

\* C1 witness: the variant Ip6Source has been converted to "ip6source".
C1_Witness ==
    /\ Ran("to_sflowrt_key_name")
    /\ key = Known("Ip6Source")
    /\ result = Some(<<"i","p","6","s","o","u","r","c","e">>)

\* C2: every name of the known-name table, parsed as a key name, is consumed
\* whole and gives its variant, by parse_key_name_or_unknown, by
\* _parse_key_name_known and, as a definition of one expression, by
\* parse_key_definition.
C2_TableNamesParseWhole ==
    IsTableName(input) =>
        /\ Ran("parse_key_name_or_unknown")
              => result = Ok(<<>>, TableVariant(input))
        /\ Ran("_parse_key_name_known")
              => result = Ok(<<>>, Some(TableVariant(input)))
        /\ Ran("parse_key_definition")
              => result = Ok(<<>>, KeyDefinition(
                               <<KeyExpression_KeyName(TableVariant(input))>>))

\* What C3 says of a text s that is no table name.
UnknownNameOutcome ==
    /\ Ran("parse_key_name_or_unknown")
          => /\ result = Ok(<<>>, Unknown(input))
             /\ to_sflowrt_key_name(result.val) = None
    /\ Ran("_parse_key_name_known") => result = Ok(input, None)

\* C3 as stated: for any text that is not a name of the table,
\* parse_key_name_or_unknown gives the catch-all holding the whole text,
\* _parse_key_name_known gives None without advancing, and the catch-all has
\* no sFlow-RT name.
C3_AnyTextOutsideTheTable == ~IsTableName(input) => UnknownNameOutcome

\* C3 amended: the same, for any non-empty text of ASCII letters and digits
\* that is not a name of the table; and to_sflowrt_key_name gives None for
\* every catch-all value.
C3_TokenOutsideTheTable ==
    /\ (IsToken(input) /\ ~IsTableName(input)) => UnknownNameOutcome
    /\ (Ran("to_sflowrt_key_name") /\ key.variant = "Unknown") => result = None

\* C3 witness: "ip5source" has been parsed into the catch-all holding it.
C3_Witness ==
    /\ Ran("parse_key_name_or_unknown")
    /\ input = Txt_ip5source
    /\ result = Ok(<<>>, Unknown(Txt_ip5source))

----------------------------------------------------------------------------
(* The grammar of the DSL, read off by splitting: a text is cut at the      *)
(* separators that stand outside every bracket pair.                       *)

\* A non-empty text of letters, digits and underscores.
IsGroupName(s) ==
    /\ s # <<>>
    /\ \A i \in DOMAIN s :
          s[i] \in AsciiAlphanumeric \cup NonAsciiAlphanumeric \cup {"_"}

Count(s, c, n) == Cardinality({j \in 1..n : s[j] = c})

\* The positions of s that hold sep outside every bracket pair.
TopSeparators(s, sep) ==
    {p \in DOMAIN s :
        /\ s[p] = sep
        /\ Count(s, fn_nest_open, p - 1) = Count(s, fn_nest_close, p - 1)}

\* The pieces of s between those positions, in order.
RECURSIVE SplitTop(_, _)
SplitTop(s, sep) ==
    IF TopSeparators(s, sep) = {} THEN <<s>>
    ELSE LET p == CHOOSE q \in TopSeparators(s, sep) :
                     \A r \in TopSeparators(s, sep) : q <= r
         IN <<Take(s, p - 1)>> \o SplitTop(Drop(s, p), sep)

Inside(s) == SubSeq(s, 2, Len(s) - 1)

IsBracketed(s) == Len(s) >= 2 /\ s[1] = fn_nest_open /\ s[Len(s)] = fn_nest_close

\* <name>:<argument>:... with the shape its function name asks for. A group
\* call may have no group name here: see C4.
RECURSIVE IsCall(_)
IsArgument(s) == IsToken(s) \/ (IsBracketed(s) /\ IsCall(Inside(s)))
IsCall(s) ==
    LET part == SplitTop(s, fn_arg_sep)
    IN /\ Len(part) >= 2
       /\ IsToken(part[1])
       /\ IF part[1] = KEY_FUNCTION_NAME_GROUP
          THEN /\ IsArgument(part[2])
               /\ \A j \in 3..Len(part) : IsGroupName(part[j])
          ELSE IF part[1] = KEY_FUNCTION_NAME_COUNTRY
          THEN Len(part) = 2 /\ IsToken(part[2])
          ELSE \A j \in 2..Len(part) : IsArgument(part[j])

IsExpression(s) == IsToken(s) \/ IsCall(s)

\* The value each text of the grammar stands for.
NameOf(s) == IF IsTableName(s) THEN TableVariant(s) ELSE Unknown(s)

RECURSIVE CallOf(_)
ArgumentOf(s) ==
    IF IsToken(s) THEN KeyExpression_KeyName(NameOf(s))
    ELSE KeyExpression_KeyFunction(CallOf(Inside(s)))
CallOf(s) ==
    LET part == SplitTop(s, fn_arg_sep)
    IN IF part[1] = KEY_FUNCTION_NAME_GROUP
       THEN GroupKeyFunction(ArgumentOf(part[2]), SubSeq(part, 3, Len(part)))
       ELSE IF part[1] = KEY_FUNCTION_NAME_COUNTRY
       THEN CountryKeyFunction(part[2])
       ELSE UnknownKeyFunction(part[1],
                [j \in 1..(Len(part) - 1) |-> ArgumentOf(part[j + 1])])

ExpressionOf(s) ==
    IF IsToken(s) THEN KeyExpression_KeyName(NameOf(s))
    ELSE KeyExpression_KeyFunction(CallOf(s))

\* The nesting depth of the function calls of a value.
RECURSIVE DepthOfFunction(_)
DepthOfExpression(e) ==
    IF e.tag = "KeyName" THEN 0 ELSE 1 + DepthOfFunction(e.fn)
Max(set) == CHOOSE m \in set : \A n \in set : n <= m
DepthOfFunction(f) ==
    IF f.tag = "Group" THEN DepthOfExpression(f.key)
    ELSE IF f.tag = "Country" THEN 0
    ELSE Max({0} \cup {DepthOfExpression(f.args[j]) : j \in DOMAIN f.args})

RanFunctionParser(name) ==
    Ran("parse_key_function") \/ Ran(name)

GroupPrefix == KEY_FUNCTION_NAME_GROUP \o <<fn_arg_sep>>
CountryPrefix == KEY_FUNCTION_NAME_COUNTRY \o <<fn_arg_sep>>

\* C4: the group parser fails when no group name follows the grouped key, so
\* every Group value a parser returns has a group name.
C4_GroupHasAName ==
    (/\ RanFunctionParser("GroupKeyFunction::parse_key_function")
     /\ result.ok
     /\ result.val.tag = "Group")
        => result.val.group_names # <<>>

\* C5: `group:<key>:<g1>:...:<gn>`, n >= 1, is consumed whole and gives the
\* Group function of the parsed <key> with the group names g1..gn as written,
\* in the order written, duplicates kept.
C5_GroupNamesInOrder ==
    LET part == SplitTop(input, fn_arg_sep)
    IN (/\ RanFunctionParser("GroupKeyFunction::parse_key_function")
        /\ IsCall(input)
        /\ part[1] = KEY_FUNCTION_NAME_GROUP
        /\ Len(part) >= 3)
           => result = Ok(<<>>, GroupKeyFunction(ArgumentOf(part[2]),
                                                 SubSeq(part, 3, Len(part))))

\* C5 witness: group:ipsource:g1:g_2:g1 has been parsed, three names with a
\* duplicate.
C5_Witness ==
    /\ Ran("parse_key_function")
    /\ input = GroupPrefix \o Txt_ipsource \o <<":">> \o Txt_g1 \o <<":">>
                  \o Txt_g_2 \o <<":">> \o Txt_g1
    /\ result.ok
    /\ result.val.group_names = <<Txt_g1, Txt_g_2, Txt_g1>>

\* The text is country:<token1>:<token2>.
IsCountryOfTwo(s) ==
    LET part == SplitTop(s, fn_arg_sep)
    IN /\ Len(part) = 3
       /\ part[1] = KEY_FUNCTION_NAME_COUNTRY
       /\ IsToken(part[2])
       /\ IsToken(part[3])

\* C6 as stated: `country:<token1>:<token2>` is a parse failure of the
\* country parser, of parse_key_function and of parse_key_definition.
C6_CountryOfTwoFails ==
    (/\ IsCountryOfTwo(input)
     /\ \/ RanFunctionParser("CountryKeyFunction::parse_key_function")
        \/ Ran("parse_key_definition"))
        => ~result.ok

\* C6 amended: on `country:<token1>:<token2>` the parsers succeed on the
\* prefix `country:<token1>`, give the Country function of token1 and leave
\* `:<token2>` unconsumed; the parse-key command reports that remainder as an
\* error.
C6_CountryOfTwoLeavesRemainder ==
    LET part == SplitTop(input, fn_arg_sep)
        left == <<fn_arg_sep>> \o part[3]
        country == CountryKeyFunction(part[2])
    IN IsCountryOfTwo(input) =>
          /\ RanFunctionParser("CountryKeyFunction::parse_key_function")
                => result = Ok(left, country)
          /\ Ran("parse_key_definition")
                => result = Ok(left, KeyDefinition(
                                  <<KeyExpression_KeyFunction(country)>>))
          /\ Ran("parse_key")
                => /\ ~result.ok
                   /\ result.error.context = "Parsing failed."
                   /\ result.error.remaining = left

\* C6 witness: parse-key has rejected country:ipsource:a.
C6_Witness ==
    /\ Ran("parse_key")
    /\ input = CountryPrefix \o Txt_ipsource \o <<":">> \o Txt_a
    /\ ~result.ok
    /\ result.error.remaining = <<":">> \o Txt_a

\* C7: `country:<t>`, t a token, a known key name or not, is consumed whole
\* and gives the Country function whose arg is the text t itself.
C7_CountryArgIsRaw ==
    LET part == SplitTop(input, fn_arg_sep)
    IN (/\ RanFunctionParser("CountryKeyFunction::parse_key_function")
        /\ Len(part) = 2
        /\ part[1] = KEY_FUNCTION_NAME_COUNTRY
        /\ IsToken(part[2]))
           => result = Ok(<<>>, CountryKeyFunction(part[2]))

\* C7 witness: country:ipsource has been parsed, its arg the text "ipsource".
C7_Witness ==
    /\ Ran("parse_key_function")
    /\ input = CountryPrefix \o Txt_ipsource
    /\ result.ok
    /\ result.val.arg = Txt_ipsource

\* C8: `<name>:<a1>:...:<an>`, <name> neither group nor country, each <ai> a
\* key name or a bracketed function call, is consumed whole and gives the
\* Unknown function <name> with the parsed arguments in the order written, at
\* every nesting depth.
C8_UnknownFunctionArguments ==
    LET part == SplitTop(input, fn_arg_sep)
    IN (/\ RanFunctionParser("UnknownKeyFunction::parse_key_function")
        /\ IsCall(input)
        /\ part[1] \notin {KEY_FUNCTION_NAME_GROUP, KEY_FUNCTION_NAME_COUNTRY})
           => result = Ok(<<>>, UnknownKeyFunction(part[1],
                  [j \in 1..(Len(part) - 1) |-> ArgumentOf(part[j + 1])]))

\* C8 witness: an unknown function of three arguments has been parsed, the
\* second a call that holds a call.
C8_Witness ==
    /\ Ran("parse_key_function")
    /\ result.ok
    /\ result.val.tag = "Unknown"
    /\ Len(result.val.args) = 3
    /\ DepthOfExpression(result.val.args[2]) >= 2

\* C9: `<e1>,...,<ek>`, k >= 1, each a key expression, gives the definition
\* whose keys are the parses of e1..ek in the order written; a definition
\* that parses has at least one key.
C9_DefinitionKeysInOrder ==
    LET part == SplitTop(input, key_def_sep)
    IN Ran("parse_key_definition") =>
          /\ result.ok => Len(result.val.keys) >= 1
          /\ (\A j \in DOMAIN part : IsExpression(part[j]))
                => result = Ok(<<>>, KeyDefinition(
                                  [j \in DOMAIN part |-> ExpressionOf(part[j])]))

\* C9 witness: a definition of three different expressions has been parsed.
C9_Witness ==
    /\ Ran("parse_key_definition")
    /\ result.ok
    /\ result.rest = <<>>
    /\ Len(result.val.keys) = 3
    /\ result.val.keys[1].tag = "KeyFunction"
    /\ result.val.keys[2] = KeyExpression_KeyName(Known("IpSource"))
    /\ result.val.keys[3] = KeyExpression_KeyName(Unknown(Txt_a))

\* C10: parse-key succeeds exactly when parse_key_definition succeeds and
\* leaves nothing of the input; where a prefix parsed and input remains, the
\* outcome is an error that carries the remainder and is told apart from the
\* error of a text the grammar rejects.
C10_TrailingTextIsAnError ==
    LET parsed == parse_key_definition(input)
    IN Ran("parse_key") =>
          /\ result.ok <=> (parsed.ok /\ parsed.rest = <<>>)
          /\ (parsed.ok /\ parsed.rest # <<>>)
                => /\ ~result.ok
                   /\ result.error.context = "Parsing failed."
                   /\ result.error.remaining = parsed.rest
          /\ ~parsed.ok
                => /\ ~result.ok
                   /\ result.error.context = "parsing a flow key definition"
                   /\ result.error.cause.input = parsed.rest

\* C10 witness: parse-key has rejected `ipsource,]` for the text left after
\* the key.
C10_Witness ==
    /\ Ran("parse_key")
    /\ input = Txt_ipsource \o <<",", "]">>
    /\ ~result.ok
    /\ result.error.context = "Parsing failed."
    /\ result.error.remaining = <<",", "]">>

----------------------------------------------------------------------------
(* The dispatch between function calls and key names.                      *)

\* The length of the longest prefix of s made of ASCII letters and digits.
TokenLen(s) ==
    Cardinality({n \in 1..Len(s) : \A j \in 1..n : s[j] \in AsciiAlphanumeric})

LeadingToken(s) == Take(s, TokenLen(s))

\* s begins with a maximal token that fn_arg_sep follows at once.
BeginsWithCall(s) ==
    /\ TokenLen(s) >= 1
    /\ Len(s) > TokenLen(s)
    /\ s[TokenLen(s) + 1] = fn_arg_sep

\* Every function of the value f, f included, has at least one argument.
RECURSIVE HasArguments(_)
HasArguments(f) ==
    IF f.tag = "Group"
    THEN f.key.tag = "KeyFunction" => HasArguments(f.key.fn)
    ELSE IF f.tag = "Country"
    THEN f.arg # <<>>
    ELSE /\ f.args # <<>>
         /\ \A j \in DOMAIN f.args :
               f.args[j].tag = "KeyFunction" => HasArguments(f.args[j].fn)

\* The function f is the one the name selects in parse_key_function.
IsNamed(f, name) ==
    IF name = KEY_FUNCTION_NAME_GROUP THEN f.tag = "Group"
    ELSE IF name = KEY_FUNCTION_NAME_COUNTRY THEN f.tag = "Country"
    ELSE f.tag = "Unknown" /\ f.function_name = name

\* The outcome of the function parser of the given name on the text s.
FunctionParserNamed(name, s) ==
    IF name = KEY_FUNCTION_NAME_GROUP
    THEN GroupKeyFunction_parse_key_function(s, fn_arg_sep)
    ELSE IF name = KEY_FUNCTION_NAME_COUNTRY
    THEN CountryKeyFunction_parse_key_function(s, fn_arg_sep)
    ELSE UnknownKeyFunction_parse_key_function(s, fn_arg_sep)

\* C11: a text is parsed as a function call only if it begins with a maximal
\* alphanumeric token followed at once by `:`, and the call parsed is then the
\* one that token names, read from the start of the text (the name is peeked,
\* not consumed): on a text that begins so, parse_key_function returns what
\* the function parser of that name returns on the whole text; a text that begins with a token that no `:` follows is
\* parsed by parse_key_expression as the key name of that token, known or
\* catch-all, with the text after the token left; and every function value
\* produced, nested ones included, has at least one argument.
C11_CallOnlyAfterNameAndSeparator ==
    /\ (Ran("parse_key_function") /\ result.ok) =>
          /\ BeginsWithCall(input)
          /\ IsNamed(result.val, LeadingToken(input))
          /\ HasArguments(result.val)
    /\ (Ran("parse_key_function") /\ ~BeginsWithCall(input)) => ~result.ok
    /\ (Ran("parse_key_function") /\ BeginsWithCall(input)) =>
          result = FunctionParserNamed(LeadingToken(input), input)
    /\ (Ran("parse_key_expression") /\ result.ok /\ result.val.tag = "KeyFunction") =>
          /\ BeginsWithCall(input)
          /\ IsNamed(result.val.fn, LeadingToken(input))
          /\ HasArguments(result.val.fn)
    /\ (Ran("parse_key_expression") /\ TokenLen(input) >= 1 /\ ~BeginsWithCall(input)) =>
          result = Ok(Drop(input, TokenLen(input)),
                      KeyExpression_KeyName(NameOf(LeadingToken(input))))

\* C11 witness: `group` alone has been parsed as the catch-all key name group.
C11_Witness ==
    /\ Ran("parse_key_expression")
    /\ input = KEY_FUNCTION_NAME_GROUP
    /\ result = Ok(<<>>, KeyExpression_KeyName(Unknown(KEY_FUNCTION_NAME_GROUP)))

\* The text begins as a function call and the function parser its name
\* selects fails on it.
CallFails(s) ==
    BeginsWithCall(s) /\ ~FunctionParserNamed(LeadingToken(s), s).ok

\* The key name made of the token the text begins with.
LeadingName(s) == KeyExpression_KeyName(NameOf(LeadingToken(s)))

AfterLeadingToken(s) == Drop(s, TokenLen(s))

\* C12 (as stated): when a text is recognised as a function call (a token
\* followed by `:`) and the group, country or unknown-function parser fails on
\* it, parse_key_expression fails and builds no value from a prefix of the
\* failed call.
C12_FailedCallFailsTheExpression ==
    (Ran("parse_key_expression") /\ CallFails(input)) => ~result.ok

\* C12 (amended): when a text is recognised as a function call and its
\* function parser fails, parse_key_function fails; parse_key_expression goes
\* back to the start and succeeds with the function name as a key name, the
\* text from the `:` on left unconsumed; parse_key_definition returns that one
\* key with the same remainder; and parse_key reports the remainder as an
\* error.
C12_FailedCallFallsBackToItsName ==
    /\ (Ran("parse_key_function") /\ CallFails(input)) => ~result.ok
    /\ (Ran("parse_key_expression") /\ CallFails(input)) =>
          result = Ok(AfterLeadingToken(input), LeadingName(input))
    /\ (Ran("parse_key_definition") /\ CallFails(input)) =>
          result = Ok(AfterLeadingToken(input), KeyDefinition(<<LeadingName(input)>>))
    /\ (Ran("parse_key") /\ CallFails(input)) =>
          /\ ~result.ok
          /\ result.error.context = "Parsing failed."
          /\ result.error.remaining = AfterLeadingToken(input)

\* C12 witness: `group:` has been parsed by parse_key_expression into the key
\* name group, with `:` left.
C12_Witness ==
    /\ Ran("parse_key_expression")
    /\ input = GroupPrefix
    /\ CallFails(input)
    /\ result = Ok(<<fn_arg_sep>>, KeyExpression_KeyName(Unknown(KEY_FUNCTION_NAME_GROUP)))

\* C13: parse_key_expression gives the function parse_key_function returns
\* when that succeeds, and otherwise the key name read from the start of the
\* same text; so it succeeds exactly on the texts that begin with a letter or
\* digit, with a function or with the key name (known or catch-all) of the
\* leading token, and fails exactly on the empty text and on texts that begin
\* with another character.
C13_ExpressionSucceedsOnALeadingToken ==
    Ran("parse_key_expression") =>
        /\ result.ok <=> (input # <<>> /\ input[1] \in AsciiAlphanumeric)
        /\ parse_key_function(input).ok =>
              result = Ok(parse_key_function(input).rest,
                          KeyExpression_KeyFunction(parse_key_function(input).val))
        /\ (~parse_key_function(input).ok /\ TokenLen(input) >= 1) =>
              result = Ok(AfterLeadingToken(input), LeadingName(input))
        /\ result.ok =>
              \/ result.val.tag = "KeyFunction"
              \/ /\ result.val.tag = "KeyName"
                 /\ result.val.name.variant \in KnownVariants \cup {"Unknown"}

\* C13 witness: on `ipsource:` the function parser fails and the known key
\* ipsource is read from the start, `:` left.
C13_Witness ==
    /\ Ran("parse_key_expression")
    /\ input = Txt_ipsource \o <<fn_arg_sep>>
    /\ ~parse_key_function(input).ok
    /\ result = Ok(<<fn_arg_sep>>, KeyExpression_KeyName(TableVariant(Txt_ipsource)))

----------------------------------------------------------------------------
(* Brackets.                                                               *)

\* The bracket depth of s after its first n characters.
DepthAt(s, n) == Count(s, fn_nest_open, n) - Count(s, fn_nest_close, n)

\* No closing bracket of s comes before its opening one, and none is missing.
Balanced(s) ==
    /\ \A n \in 0..Len(s) : DepthAt(s, n) >= 0
    /\ DepthAt(s, Len(s)) = 0

\* The positions after p where the bracket opened at p is closed.
ClosesOf(s, p) ==
    {q \in (p + 1)..Len(s) :
        s[q] = fn_nest_close /\ DepthAt(s, q) = DepthAt(s, p - 1)}

\* The text between the bracket opened at p and the bracket that closes it.
Enclosed(s, p) ==
    SubSeq(s, p + 1,
           (CHOOSE q \in ClosesOf(s, p) : \A r \in ClosesOf(s, p) : q <= r) - 1)

\* The operation has taken the whole of its input.
AcceptedInFull ==
    \/ /\ Ran("parse_key_definition") \/ Ran("parse_key_expression") \/ Ran("parse_key_function")
       /\ result.ok
       /\ result.rest = <<>>
    \/ Ran("parse_key") /\ result.ok

\* C14: when a parser takes the whole of its input, the brackets of the input
\* balance, every `[` is closed by a later `]`, and what each pair encloses is
\* one function call, complete (a text of the form <name>:<argument>:..., its
\* own brackets in pairs around calls); so no text with an unmatched `[` or
\* `]`, at whatever depth, is taken whole.
C14_BracketsPairAroundCalls ==
    AcceptedInFull =>
        /\ Balanced(input)
        /\ \A p \in DOMAIN input :
              input[p] = fn_nest_open =>
                  /\ ClosesOf(input, p) # {}
                  /\ IsCall(Enclosed(input, p))

\* C14 witness: a definition with a call nested two brackets deep has been
\* taken whole.
C14_Witness ==
    /\ Ran("parse_key_definition")
    /\ input = Txt_f \o <<":", "[">> \o Txt_f \o <<":", "[">>
                   \o KEY_FUNCTION_NAME_COUNTRY \o <<":">> \o Txt_a \o <<"]", "]">>
    /\ result.ok
    /\ result.rest = <<>>
    /\ DepthAt(input, 6) = 2

----------------------------------------------------------------------------
(* Functions as arguments.                                                 *)

\* What the operation has taken of its input.
Consumed == Take(input, Len(input) - Len(result.rest))

RECURSIVE SumOf(_)
SumOf(ns) == IF ns = <<>> THEN 0 ELSE Head(ns) + SumOf(Tail(ns))

\* The number of function values inside the function f, f not counted.
RECURSIVE FunctionsBelow(_)
FunctionsIn(e) == IF e.tag = "KeyName" THEN 0 ELSE 1 + FunctionsBelow(e.fn)
FunctionsBelow(f) ==
    IF f.tag = "Group" THEN FunctionsIn(f.key)
    ELSE IF f.tag = "Country" THEN 0
    ELSE SumOf([j \in DOMAIN f.args |-> FunctionsIn(f.args[j])])

\* The number of function values of the result that are arguments of another
\* function.
NestedFunctions ==
    IF Ran("parse_key_definition")
    THEN SumOf([j \in DOMAIN result.val.keys |->
                   IF result.val.keys[j].tag = "KeyName" THEN 0
                   ELSE FunctionsBelow(result.val.keys[j].fn)])
    ELSE IF Ran("parse_key_expression")
    THEN (IF result.val.tag = "KeyName" THEN 0 ELSE FunctionsBelow(result.val.fn))
    ELSE FunctionsBelow(result.val)

BracketPairs(s) == Count(s, fn_nest_open, Len(s))

Txt_f_group_a_g1 ==
    Txt_f \o <<":">> \o KEY_FUNCTION_NAME_GROUP \o <<":">> \o Txt_a \o <<":">> \o Txt_g1

\* C15: an argument of a parsed function is a function exactly where it is
\* written in brackets. What parse_key_function takes of its input is a call
\* <name>:<argument>:... and the value is the one that text stands for, with
\* each argument without brackets a key name and each bracketed argument the
\* function of the call inside; an argument that begins <token>: without
\* brackets is parsed as the key name of the token alone, so `f:group:a:g1`
\* is the unknown function f of the key names group, a, g1; in every
\* successful parse the number of functions that are arguments of another
\* function is the number of `[` taken, which is the number of `]` taken; and
\* a bracketed token such as `[ipsource]` is no argument.
C15_FunctionArgumentsAreTheBracketedOnes ==
    /\ (Ran("parse_key_function") /\ result.ok) =>
          /\ IsCall(Consumed)
          /\ result.val = CallOf(Consumed)
          /\ result.val.tag = "Unknown" =>
                \A j \in DOMAIN result.val.args :
                    result.val.args[j].tag = "KeyFunction"
                        <=> IsBracketed(SplitTop(Consumed, fn_arg_sep)[j + 1])
          /\ result.val.tag = "Group" =>
                (result.val.key.tag = "KeyFunction"
                    <=> IsBracketed(SplitTop(Consumed, fn_arg_sep)[2]))
    /\ (/\ \/ Ran("parse_key_function")
           \/ Ran("GroupKeyFunction::parse_key_function")
           \/ Ran("CountryKeyFunction::parse_key_function")
           \/ Ran("UnknownKeyFunction::parse_key_function")
           \/ Ran("parse_key_expression")
           \/ Ran("parse_key_definition")
        /\ result.ok) =>
          /\ NestedFunctions = BracketPairs(Consumed)
          /\ Balanced(Consumed)
    /\ Ran("parse_key_function_argument") =>
          /\ result.ok =>
                (result.val.tag = "KeyFunction" <=> input[1] = fn_nest_open)
          /\ BeginsWithCall(input) =>
                result = Ok(AfterLeadingToken(input), LeadingName(input))
          /\ (IsBracketed(input) /\ IsToken(Inside(input))) => ~result.ok
    /\ (Ran("parse_key_function") /\ input = Txt_f_group_a_g1) =>
          result = Ok(<<>>, UnknownKeyFunction(Txt_f,
                              <<KeyExpression_KeyName(Unknown(KEY_FUNCTION_NAME_GROUP)),
                                KeyExpression_KeyName(Unknown(Txt_a)),
                                KeyExpression_KeyName(Unknown(Txt_g1))>>))

\* C15 witness: `f:group:a:g1` has been parsed into a function with three
\* arguments, none of them a function.
C15_Witness ==
    /\ Ran("parse_key_function")
    /\ input = Txt_f_group_a_g1
    /\ result.ok
    /\ Len(result.val.args) = 3
    /\ NestedFunctions = 0

====
